---- MODULE Spec2Model ----
(***************************************************************************)
(* Gift-coordination application: wishlist claim/purchase state machine,   *)
(* wishlist item creation, editing and deletion, profile permission        *)
(* predicates, family parent-slot assignment, family slugs, account and    *)
(* profile creation, the approval gate, avatar normalisation, profile      *)
(* completeness and the next-occurrence date calculators.                  *)
(*                                                                         *)
(* One identifier names an account and its Profile; profiles[u] counts the *)
(* Profile rows of account u. A stored row is a record; a request handler  *)
(* is one action when requests do not overlap (SpecWish, SpecSlots) and a  *)
(* sequence of steps when they do (the race specifications).               *)
(***************************************************************************)
EXTENDS Integers, FiniteSets, Sequences, TLC

\* ------------------------------------------------------------------ bounds
MaxClock == 4

\* --------------------------------------------------------------- universes
Users == {"u1", "u2", "u3"}
Families == {"f1", "f2"}
NULL == "NULL"
NoTime == 0
ROLE_PARENT == "Parent"
ROLE_CHILD == "Child"
Roles == {ROLE_PARENT, ROLE_CHILD, ""}
Methods == {"GET", "POST"}
Titles == {"", "a", "b"}

VARIABLES
    accounts,      \* existing accounts (each with its one Profile)
    role,          \* Profile.role
    family,        \* Profile.family
    is_approved,   \* Profile.is_approved
    parent1,       \* Family.parent1
    parent2,       \* Family.parent2
    item,          \* the stored WishlistItem row
    now,           \* timezone.now()
    last,          \* the last request handled and its outcome
    ctx,           \* the permission flags profile_detail last rendered
    families,      \* existing Family rows
    wreq,          \* wishlist requests in flight (overlapping requests)
    sreq,          \* slot assignments in flight (overlapping requests)
    row_lock,      \* holder of each Family row's lock
    display_name,  \* Family.display_name
    slug,          \* Family.slug
    profiles,      \* number of Profile rows of each account
    avatar_source,            \* Profile.avatar_source
    avatar_library_filename,  \* Profile.avatar_library_filename
    avatar_upload,            \* Profile.avatar_upload (the stored file's name)
    auth_user,     \* the User row: first_name, last_name, email
    today,         \* timezone.localdate()
    occasion,      \* the stored birthday or anniversary handed to a calculator
    next_dt        \* what the calculator last returned

vars == <<accounts, role, family, is_approved, parent1, parent2, item, now, last, ctx,
          families, wreq, sreq, row_lock, display_name, slug, profiles,
          avatar_source, avatar_library_filename, avatar_upload,
          auth_user, today, occasion, next_dt>>

avatarVars == <<avatar_source, avatar_library_filename, avatar_upload>>
dateVars == <<today, occasion, next_dt>>
profileVars == <<accounts, role, family, is_approved, profiles, avatarVars, auth_user,
                 dateVars>>
slotVars == <<parent1, parent2, families>>
flightVars == <<wreq, sreq, row_lock>>
nameVars == <<display_name, slug>>

\* ------------------------------------------------------- names and slugs
\* A string is a sequence of characters. "U+674E" stands for one character
\* outside ASCII.
FamilyIds == Families \cup {"f3"}
NoName == <<>>
Str_New_Family == <<"N", "e", "w", " ", "F", "a", "m", "i", "l", "y">>
Str_family == <<"f", "a", "m", "i", "l", "y">>
Str_Sm == <<"S", "m">>
Str_sm_1 == <<"s", "m", " ", "1">>
Str_nonword == <<"U+674E", "!">>

lower(c) ==
    CASE c = "S" -> "s"
      [] c = "N" -> "n"
      [] c = "F" -> "f"
      [] OTHER -> c

\* \w, whitespace and the hyphen, after lower-casing.
WordChars == {"s", "m", "n", "e", "w", "f", "a", "i", "l", "y", "_",
              "0", "1", "2", "3", "4", "5", "6", "7", "8", "9"}
Separators == {" ", "-"}
NonAscii == {"U+674E"}

RECURSIVE SkipSeparators(_)
SkipSeparators(s) ==
    IF s # <<>> /\ Head(s) \in Separators THEN SkipSeparators(Tail(s)) ELSE s

\* re.sub(r"[-\s]+", "-", value)
RECURSIVE Hyphenate(_)
Hyphenate(s) ==
    IF s = <<>> THEN <<>>
    ELSE IF Head(s) \in Separators THEN <<"-">> \o Hyphenate(SkipSeparators(s))
    ELSE <<Head(s)>> \o Hyphenate(Tail(s))

\* value.strip("-_")
RECURSIVE LStrip(_)
LStrip(s) == IF s # <<>> /\ Head(s) \in {"-", "_"} THEN LStrip(Tail(s)) ELSE s

RECURSIVE RStrip(_)
RStrip(s) ==
    IF s # <<>> /\ s[Len(s)] \in {"-", "_"} THEN RStrip(SubSeq(s, 1, Len(s) - 1)) ELSE s

\* django slugify: drop non-ASCII, lower-case, drop what is not a word
\* character, whitespace or hyphen, turn runs of whitespace and hyphens into
\* one hyphen, strip hyphens and underscores at both ends.
slugify(value) ==
    LET ascii == SelectSeq(value, LAMBDA c : c \notin NonAscii)
        lowered == [i \in 1..Len(ascii) |-> lower(ascii[i])]
        kept == SelectSeq(lowered, LAMBDA c : c \in WordChars \cup Separators)
    IN RStrip(LStrip(Hyphenate(kept)))

Digits == <<"0", "1", "2", "3", "4", "5", "6", "7", "8", "9">>

\* str(n)
RECURSIVE Decimal(_)
Decimal(n) ==
    IF n < 10 THEN <<Digits[n + 1]>>
    ELSE Decimal(n \div 10) \o <<Digits[(n % 10) + 1]>>

\* The while loop of Family.save: base, then base-1, base-2, ... until unused.
RECURSIVE first_unused(_, _, _, _)
first_unused(unique, base, n, used) ==
    IF unique \in used
      THEN first_unused(base \o <<"-">> \o Decimal(n), base, n + 1, used)
      ELSE unique

\* Variant that takes the base as it is.
unique_slug_no_loop(name, used) ==
    IF slugify(name) # <<>> THEN slugify(name) ELSE Str_family

unique_slug(name, used) ==
    LET base == IF slugify(name) # <<>> THEN slugify(name) ELSE Str_family IN
      first_unused(base, base, 1, used)

\* first_name or username of each account.
first_name == [u \in Users |-> IF u = "u1" THEN Str_Sm ELSE IF u = "u2" THEN <<"s", "m">>
                                 ELSE <<"1">>]

auto_display_name(p1, p2) ==
    LET n1 == IF p1 # NULL THEN first_name[p1] ELSE <<>>
        n2 == IF p2 # NULL THEN first_name[p2] ELSE <<>>
    IN IF n1 # <<>> /\ n2 # <<>> THEN n1 \o <<" ", "&", " ">> \o n2
       ELSE IF n1 # <<>> THEN n1
       ELSE IF n2 # <<>> THEN n2
       ELSE Str_New_Family

\* The Family rows other specifications start with, as Family.save leaves them.
SeedName == [f \in FamilyIds |-> IF f = "f1" THEN Str_Sm
                                 ELSE IF f = "f2" THEN Str_sm_1 ELSE Str_nonword]

InitNames ==
    /\ display_name = [f \in FamilyIds |-> IF f \in families THEN SeedName[f] ELSE NoName]
    /\ slug = [f \in FamilyIds |->
                 IF f \in families THEN unique_slug(SeedName[f], {}) ELSE NoName]

\* ------------------------------------------------------ profile and user rows
AVATAR_SOURCE_DEFAULT == "default"
AVATAR_SOURCE_LIBRARY == "library"
AVATAR_SOURCE_UPLOAD == "upload"
AvatarSources == {AVATAR_SOURCE_DEFAULT, AVATAR_SOURCE_LIBRARY, AVATAR_SOURCE_UPLOAD}

\* An empty file field and an empty library filename are the empty string.
NoFile == ""
Filenames == {"", "a.png"}
Uploads == {NoFile, "me.png"}
Emails == {"", "e1", "e2", "e3"}
OwnEmail == [u \in Users |-> IF u = "u1" THEN "e1" ELSE IF u = "u2" THEN "e2" ELSE "e3"]

\* The User row of an account that filled in every field, and of none.
FullUser(u) == [first_name |-> first_name[u], last_name |-> "n", email |-> OwnEmail[u]]
NoUser == [first_name |-> NoName, last_name |-> "", email |-> ""]

\* A date; NoDate is a date field left empty, NoResult a calculator not run.
Date(y, m, d) == [year |-> y, month |-> m, day |-> d]
NoDate == Date(0, 0, 0)
NoResult == [raised |-> FALSE, date |-> NoDate]

\* Profile.objects.get_or_create(user=u): the number of Profile rows of u
\* afterwards, given the number before.
create_without_get(n) == n + 1

get_or_create(n) == IF n = 0 THEN 1 ELSE n

\* The post_save receiver: a Profile for a User saved for the first time.
create_profile_on_user_create(created, n) ==
    IF ~created THEN n ELSE get_or_create(n)

\* User.save(): the row is written, then post_save runs its receivers.
User_save(created, n) == create_profile_on_user_create(created, n)

\* The rows of the accounts present at the start: one Profile each with the
\* default avatar, its names and its own e-mail address filled in.
InitRows ==
    /\ profiles = [u \in Users |-> IF u \in accounts THEN 1 ELSE 0]
    /\ avatar_source = [u \in Users |-> AVATAR_SOURCE_DEFAULT]
    /\ avatar_library_filename = [u \in Users |-> ""]
    /\ avatar_upload = [u \in Users |-> NoFile]
    /\ auth_user = [u \in Users |-> IF u \in accounts THEN FullUser(u) ELSE NoUser]

\* No date calculator is involved: a fixed day, nothing stored, nothing shown.
NoCalculation ==
    /\ today = Date(2024, 1, 1)
    /\ occasion = NoDate
    /\ next_dt = NoResult

\* ------------------------------------------------------------ WishlistItem
NewItem(owner) ==
    [exists |-> TRUE, profile |-> owner, title |-> "a",
     is_claimed |-> FALSE, claimed_by |-> NULL, claimed_at |-> NoTime,
     is_purchased |-> FALSE, purchased_by |-> NULL, purchased_at |-> NoTime]

DeletedItem ==
    [exists |-> FALSE, profile |-> NULL, title |-> "",
     is_claimed |-> FALSE, claimed_by |-> NULL, claimed_at |-> NoTime,
     is_purchased |-> FALSE, purchased_by |-> NULL, purchased_at |-> NoTime]

\* ----------------------------------------------------------------- Profile
is_parent(p) == role[p] = ROLE_PARENT

\* Variant that shows a parent the private notes of non-parents only.
can_view_private_notes_for_not_parents(viewer, target) ==
    IF ~is_parent(viewer) THEN FALSE ELSE target # viewer /\ ~is_parent(target)

can_view_private_notes_for(viewer, target) ==
    IF ~is_parent(viewer) THEN FALSE ELSE target # viewer

\* Variant that lets a parent see the purchase state of their own list.
can_view_purchase_info_for_self_too(viewer, target) ==
    IF ~is_parent(viewer) THEN FALSE ELSE TRUE

can_view_purchase_info_for(viewer, target) ==
    IF ~is_parent(viewer) THEN FALSE ELSE target # viewer

can_edit_profile(viewer, target) ==
    IF is_parent(viewer) THEN TRUE ELSE viewer = target

\* ------------------------------------------------- WishlistItem transitions
\* Each method returns the (possibly mutated) in-memory object and whether
\* PermissionError was raised.
Raised(it) == [raised |-> TRUE, obj |-> it]
Returned(it) == [raised |-> FALSE, obj |-> it]

\* Variant without the single-claimer rule.
can_parent_claim_no_exclusivity(it, viewer) ==
    IF ~is_parent(viewer) THEN FALSE ELSE TRUE

can_parent_claim(it, viewer) ==
    IF ~is_parent(viewer) THEN FALSE
    ELSE IF it.is_claimed /\ it.claimed_by # NULL /\ it.claimed_by # viewer THEN FALSE
    ELSE TRUE

\* Variant that refuses to claim an item somebody has purchased.
claim_refuses_purchased(it, viewer, t) ==
    IF ~can_parent_claim(it, viewer) \/ it.is_purchased THEN Raised(it)
    ELSE Returned([it EXCEPT !.is_claimed = TRUE,
                             !.claimed_by = viewer,
                             !.claimed_at = IF it.claimed_at = NoTime THEN t ELSE @])

\* Variant that stamps claimed_at on every successful claim.
claim_restamps(it, viewer, t) ==
    IF ~can_parent_claim(it, viewer) THEN Raised(it)
    ELSE Returned([it EXCEPT !.is_claimed = TRUE,
                             !.claimed_by = viewer,
                             !.claimed_at = t])

claim(it, viewer, t) ==
    IF ~can_parent_claim(it, viewer) THEN Raised(it)
    ELSE Returned([it EXCEPT !.is_claimed = TRUE,
                             !.claimed_by = viewer,
                             !.claimed_at = IF it.claimed_at = NoTime THEN t ELSE @])

\* Variant that also forgets when the item was first claimed.
unclaim_clears_timestamp(it, viewer, t) ==
    IF ~is_parent(viewer) THEN Raised(it)
    ELSE IF /\ it.claimed_by # NULL
            /\ it.claimed_by # viewer
            /\ ~can_edit_profile(viewer, it.profile) THEN Raised(it)
    ELSE Returned([it EXCEPT !.is_claimed = FALSE, !.claimed_by = NULL,
                             !.claimed_at = NoTime])

\* Variant that clears the claim before it checks the caller.
unclaim_clears_then_checks(it, viewer, t) ==
    LET cleared == [it EXCEPT !.is_claimed = FALSE, !.claimed_by = NULL] IN
      IF ~is_parent(viewer) THEN Raised(cleared)
      ELSE IF /\ it.claimed_by # NULL
              /\ it.claimed_by # viewer
              /\ ~can_edit_profile(viewer, it.profile) THEN Raised(cleared)
      ELSE Returned(cleared)

unclaim(it, viewer, t) ==
    IF ~is_parent(viewer) THEN Raised(it)
    ELSE IF /\ it.claimed_by # NULL
            /\ it.claimed_by # viewer
            /\ ~can_edit_profile(viewer, it.profile) THEN Raised(it)
    ELSE Returned([it EXCEPT !.is_claimed = FALSE, !.claimed_by = NULL])

\* Variant with a single-purchaser rule like the one claim has.
mark_purchased_single_purchaser(it, viewer, t) ==
    IF ~is_parent(viewer) THEN Raised(it)
    ELSE IF it.is_purchased /\ it.purchased_by # NULL /\ it.purchased_by # viewer
      THEN Raised(it)
    ELSE Returned([it EXCEPT !.is_purchased = TRUE,
                             !.purchased_by = viewer,
                             !.purchased_at = IF it.purchased_at = NoTime THEN t ELSE @])

mark_purchased(it, viewer, t) ==
    IF ~is_parent(viewer) THEN Raised(it)
    ELSE Returned([it EXCEPT !.is_purchased = TRUE,
                             !.purchased_by = viewer,
                             !.purchased_at = IF it.purchased_at = NoTime THEN t ELSE @])

\* Variant that keeps the purchase timestamp.
clear_purchased_keeps_timestamp(it, viewer, t) ==
    IF ~is_parent(viewer) THEN Raised(it)
    ELSE Returned([it EXCEPT !.is_purchased = FALSE, !.purchased_by = NULL])

\* Variant without the role check.
clear_purchased_any_role(it, viewer, t) ==
    Returned([it EXCEPT !.is_purchased = FALSE,
                        !.purchased_by = NULL,
                        !.purchased_at = NoTime])

clear_purchased(it, viewer, t) ==
    IF ~is_parent(viewer) THEN Raised(it)
    ELSE Returned([it EXCEPT !.is_purchased = FALSE,
                             !.purchased_by = NULL,
                             !.purchased_at = NoTime])

\* ------------------------------------------------------- wishlist requests
Outcome(op, actor, result) == [op |-> op, actor |-> actor, result |-> result]

\* The body shared by the four claim/purchase views: approval gate, item
\* lookup, POST check, then the transition followed by item.save().
ItemView(op, actor, method, r) ==
    /\ actor \in accounts
    /\ now < MaxClock
    /\ now' = now + 1
    /\ IF ~is_approved[actor]
         THEN /\ item' = item
              /\ last' = Outcome(op, actor, "pending")
       ELSE IF ~item.exists
         THEN /\ item' = item
              /\ last' = Outcome(op, actor, "404")
       ELSE IF method # "POST"
         THEN /\ item' = item
              /\ last' = Outcome(op, actor, "forbidden")
       ELSE IF r.raised
         THEN /\ item' = item
              /\ last' = Outcome(op, actor, "denied")
       ELSE /\ item' = r.obj
            /\ last' = Outcome(op, actor, "ok")
    /\ UNCHANGED <<profileVars, slotVars, flightVars, ctx, nameVars>>

claim_wishlist_item(actor, method) ==
    ItemView("claim", actor, method, claim(item, actor, now))

unclaim_wishlist_item(actor, method) ==
    ItemView("unclaim", actor, method, unclaim(item, actor, now))

mark_purchased_wishlist_item(actor, method) ==
    ItemView("mark_purchased", actor, method, mark_purchased(item, actor, now))

clear_purchased_wishlist_item(actor, method) ==
    ItemView("clear_purchased", actor, method, clear_purchased(item, actor, now))

\* ------------------------------------------------------------ wishlist CRUD
\* WishlistItemForm.is_valid(): title is the one required field.
is_valid(title) == title # ""

\* add_wishlist_item: approval gate, target lookup, can_edit_profile, then the
\* form. The model holds one item, so an item is added only when there is none.
add_wishlist_item(actor, target, method, title) ==
    /\ actor \in accounts
    /\ LET res == IF ~is_approved[actor] THEN "pending"
                  ELSE IF target \notin accounts THEN "404"
                  ELSE IF ~can_edit_profile(actor, target) THEN "denied"
                  ELSE IF method # "POST" THEN "form"
                  ELSE IF ~is_valid(title) THEN "invalid"
                  ELSE "ok"
       IN /\ res = "ok" => ~item.exists
          /\ item' = IF res = "ok" THEN [NewItem(target) EXCEPT !.title = title] ELSE item
          /\ last' = Outcome("add", actor, res)
    /\ UNCHANGED <<profileVars, slotVars, flightVars, now, ctx, nameVars>>

\* edit_wishlist_item: the form writes the content fields of the stored row.
edit_wishlist_item(actor, method, title) ==
    /\ actor \in accounts
    /\ LET res == IF ~is_approved[actor] THEN "pending"
                  ELSE IF ~item.exists THEN "404"
                  ELSE IF ~can_edit_profile(actor, item.profile) THEN "denied"
                  ELSE IF method # "POST" THEN "form"
                  ELSE IF ~is_valid(title) THEN "invalid"
                  ELSE "ok"
       IN /\ item' = IF res = "ok" THEN [item EXCEPT !.title = title] ELSE item
          /\ last' = Outcome("edit", actor, res)
    /\ UNCHANGED <<profileVars, slotVars, flightVars, now, ctx, nameVars>>

\* delete_wishlist_item: POST is checked before the permission.
delete_wishlist_item(actor, method) ==
    /\ actor \in accounts
    /\ LET res == IF ~is_approved[actor] THEN "pending"
                  ELSE IF ~item.exists THEN "404"
                  ELSE IF method # "POST" THEN "forbidden"
                  ELSE IF ~can_edit_profile(actor, item.profile) THEN "denied"
                  ELSE "ok"
       IN /\ item' = IF res = "ok" THEN DeletedItem ELSE item
          /\ last' = Outcome("delete", actor, res)
    /\ UNCHANGED <<profileVars, slotVars, flightVars, now, ctx, nameVars>>

\* ---------------------------------------------------------- account removal
\* Deleting an account deletes its Profile (CASCADE) and the items that
\* Profile owns (CASCADE); references from other rows are SET_NULL.
ClearRef(v, u) == IF v = u THEN NULL ELSE v

RemoveAccount(u) ==
    /\ u \in accounts
    /\ accounts' = accounts \ {u}
    /\ role' = [role EXCEPT ![u] = ""]
    /\ family' = [family EXCEPT ![u] = NULL]
    /\ is_approved' = [is_approved EXCEPT ![u] = FALSE]
    /\ profiles' = [profiles EXCEPT ![u] = 0]
    /\ avatar_source' = [avatar_source EXCEPT ![u] = AVATAR_SOURCE_DEFAULT]
    /\ avatar_library_filename' = [avatar_library_filename EXCEPT ![u] = ""]
    /\ avatar_upload' = [avatar_upload EXCEPT ![u] = NoFile]
    /\ auth_user' = [auth_user EXCEPT ![u] = NoUser]
    /\ parent1' = [f \in Families |-> ClearRef(parent1[f], u)]
    /\ parent2' = [f \in Families |-> ClearRef(parent2[f], u)]
    /\ item' = IF item.exists /\ item.profile = u THEN DeletedItem
               ELSE [item EXCEPT !.claimed_by = ClearRef(@, u),
                                 !.purchased_by = ClearRef(@, u)]
    /\ last' = Outcome("remove_account", u, "ok")
    /\ UNCHANGED <<now, ctx, families, flightVars, nameVars, dateVars>>

\* ------------------------------------------- non-overlapping wishlist requests
NoOutcome == Outcome("none", NULL, "none")
NoContext == [target |-> NULL, can_view_purchase_info |-> FALSE,
              can_view_private_notes |-> FALSE, can_edit_wishlist |-> FALSE]

Requests == {"r1", "r2"}
NoRow == [parent1 |-> NULL, parent2 |-> NULL]
IdleWish == [pc |-> "done", op |-> "none", actor |-> NULL, obj |-> DeletedItem,
             result |-> "none"]
IdleSlot == [pc |-> "done", user |-> NULL, fam |-> NULL, row |-> NoRow,
             result |-> "none"]

\* Nothing in flight: requests are handled one at a time.
NoFlight ==
    /\ wreq = [r \in Requests |-> IdleWish]
    /\ sreq = [r \in Requests |-> IdleSlot]
    /\ row_lock = [f \in Families |-> NULL]

\* One new item, owned by u1 of family f1. The roles and approvals of the
\* three profiles and the families of the other two are arbitrary, which
\* covers every configuration up to renaming profiles and families.
InitWish ==
    /\ accounts = Users
    /\ role \in [Users -> Roles]
    /\ family \in {fm \in [Users -> Families] : fm["u1"] = "f1"}
    /\ is_approved \in [Users -> BOOLEAN]
    /\ parent1 = [f \in Families |-> NULL]
    /\ parent2 = [f \in Families |-> NULL]
    /\ item = NewItem("u1")
    /\ now = 1
    /\ last = NoOutcome
    /\ ctx = NoContext
    /\ families = Families
    /\ InitNames
    /\ InitRows
    /\ NoCalculation
    /\ NoFlight

NextWish ==
    \/ \E u \in Users, m \in Methods : claim_wishlist_item(u, m)
    \/ \E u \in Users, m \in Methods : unclaim_wishlist_item(u, m)
    \/ \E u \in Users, m \in Methods : mark_purchased_wishlist_item(u, m)
    \/ \E u \in Users, m \in Methods : clear_purchased_wishlist_item(u, m)
    \/ \E u \in Users : RemoveAccount(u)

SpecWish == InitWish /\ [][NextWish]_vars

\* ------------------------------------------------------ permission predicates
\* profile_detail evaluates the three predicates for (viewer, target) and
\* hands the flags to the template.
profile_detail(viewer, target) ==
    /\ viewer \in accounts
    /\ IF target \notin accounts
         THEN /\ ctx' = NoContext
              /\ last' = Outcome("profile_detail", viewer, "404")
         ELSE /\ ctx' = [target |-> target,
                        can_view_purchase_info |-> can_view_purchase_info_for(viewer, target),
                        can_view_private_notes |-> can_view_private_notes_for(viewer, target),
                        can_edit_wishlist |-> can_edit_profile(viewer, target)]
              /\ last' = Outcome("profile_detail", viewer, "ok")
    /\ UNCHANGED <<profileVars, slotVars, flightVars, item, now, nameVars>>

InitPerm ==
    /\ accounts = Users
    /\ role \in [Users -> Roles]
    /\ family \in [Users -> Families \cup {NULL}]
    /\ is_approved = [u \in Users |-> TRUE]
    /\ parent1 = [f \in Families |-> NULL]
    /\ parent2 = [f \in Families |-> NULL]
    /\ item = DeletedItem
    /\ now = 1
    /\ last = NoOutcome
    /\ ctx = NoContext
    /\ families = Families
    /\ InitNames
    /\ InitRows
    /\ NoCalculation
    /\ NoFlight

NextPerm ==
    \/ \E viewer \in Users, target \in Users : profile_detail(viewer, target)
    \/ \E u \in Users : RemoveAccount(u)

SpecPerm == InitPerm /\ [][NextPerm]_vars

Rendered == last.op = "profile_detail" /\ last.result = "ok"

SameFamily(p, q) == family[p] # NULL /\ family[p] = family[q]

\* C9: can_edit_profile(viewer, target) is true exactly when viewer is target,
\* or viewer is a Parent and target is a Child of the same family.
C9_EditOwnOrFamilyChild ==
    Rendered =>
      (ctx.can_edit_wishlist <=>
         \/ last.actor = ctx.target
         \/ /\ role[last.actor] = ROLE_PARENT
            /\ role[ctx.target] = ROLE_CHILD
            /\ SameFamily(last.actor, ctx.target))

\* C10: can_view_purchase_info_for(viewer, target) is true exactly when viewer
\* is a Parent and viewer is not target.
C10_PurchaseInfoParentNotSelf ==
    Rendered =>
      (ctx.can_view_purchase_info <=>
         (role[last.actor] = ROLE_PARENT /\ last.actor # ctx.target))

\* A parent looked at their own profile and got no purchase info.
C10_Witness ==
    /\ Rendered
    /\ role[last.actor] = ROLE_PARENT
    /\ ctx.target = last.actor
    /\ ~ctx.can_view_purchase_info

\* C11: can_view_private_notes_for(viewer, target) is true exactly when viewer
\* is a Parent and viewer is not target: a Parent sees the notes of every other
\* profile, other Parents included, never their own; a Child sees none.
C11_PrivateNotesParentNotSelf ==
    Rendered =>
      /\ ctx.can_view_private_notes <=>
            (role[last.actor] = ROLE_PARENT /\ last.actor # ctx.target)
      /\ role[last.actor] = ROLE_CHILD => ~ctx.can_view_private_notes
      /\ (role[last.actor] = ROLE_PARENT /\ last.actor = ctx.target)
            => ~ctx.can_view_private_notes

\* A parent looked at another parent's profile and was shown the private notes.
C11_Witness ==
    /\ Rendered
    /\ role[last.actor] = ROLE_PARENT
    /\ ctx.target # last.actor
    /\ role[ctx.target] = ROLE_PARENT
    /\ ctx.can_view_private_notes

\* ------------------------------------------------------------ claims (wish)
\* A step that handles one of the four claim/purchase requests.
ItemRequestStep == now' = now + 1

\* C1: while the item is claimed by a, a claim request by a different profile
\* b raises PermissionError and leaves the row as it is, and claimed_by stays
\* a until a successful unclaim (or until a's profile or the item is gone).
C1_ExclusiveClaim ==
    [][\A a \in Users :
         (item.exists /\ item.is_claimed /\ item.claimed_by = a) =>
           /\ \A b \in Users \ {a} :
                (ItemRequestStep /\ last'.op = "claim" /\ last'.actor = b) =>
                  /\ last'.result # "ok"
                  /\ item' = item
                  /\ (is_approved[b] /\ last'.result # "forbidden")
                        => last'.result = "denied"
           /\ (/\ a \in accounts'
               /\ item'.exists
               /\ ~(ItemRequestStep /\ last'.op = "unclaim" /\ last'.result = "ok"))
                 => (item'.is_claimed /\ item'.claimed_by = a)]_vars

\* A parent b was refused the item that a different parent a holds.
C1_Witness ==
    /\ last.op = "claim" /\ last.result = "denied"
    /\ is_parent(last.actor)
    /\ item.is_claimed /\ item.claimed_by \in Users \ {last.actor}
    /\ is_parent(item.claimed_by)

\* C5: an item with is_claimed = TRUE has a claimer.
C5_ClaimedHasClaimer ==
    (item.exists /\ item.is_claimed) => item.claimed_by # NULL

\* C6: a successful claim by a followed immediately by another claim by a
\* succeeds again and leaves the whole row, claimed_at included, as the first
\* call left it.
C6_ClaimIdempotent ==
    [][(/\ last.op = "claim" /\ last.result = "ok"
        /\ ItemRequestStep
        /\ last'.op = "claim" /\ last'.actor = last.actor
        /\ last'.result # "forbidden")
         => (last'.result = "ok" /\ item' = item)]_vars

\* Two claims by the same parent were handled back to back (requests at times
\* 1 and 2, nobody removed): the second succeeded and claimed_at is the first's.
C6_Witness ==
    /\ now = 3 /\ accounts = Users
    /\ last.op = "claim" /\ last.result = "ok"
    /\ item.claimed_by = last.actor
    /\ item.claimed_at = 1

C8_UnclaimOnlySameFamily ==
    [][\A a \in Users :
         (/\ item.exists /\ item.is_claimed /\ item.claimed_by = a
          /\ ItemRequestStep /\ last'.op = "unclaim" /\ last'.actor # a
          /\ last'.result = "ok")
           => (is_parent(last'.actor) /\ family[last'.actor] = family[item.profile])]_vars

\* ------------------------------------------------ overlapping wishlist requests
\* A view loads the row, runs the transition on its own copy and saves the
\* whole row; nothing is locked and no transaction spans the three.
Transitions == {"claim", "unclaim", "mark_purchased", "clear_purchased"}

Apply(op, it, viewer, t) ==
    CASE op = "claim" -> claim(it, viewer, t)
      [] op = "unclaim" -> unclaim(it, viewer, t)
      [] op = "mark_purchased" -> mark_purchased(it, viewer, t)
      [] OTHER -> clear_purchased(it, viewer, t)

\* C13: when claim, unclaim, mark_purchased or clear_purchased fails with
\* PermissionError, the object the method was called on and the stored row
\* both keep all six claim/purchase fields.
C13_NoPartialSuccess ==
    [][(ItemRequestStep /\ last'.op \in Transitions /\ last'.result = "denied") =>
         LET res == Apply(last'.op, item, last'.actor, now) IN
           /\ res.raised
           /\ res.obj = item
           /\ item' = item]_vars

\* A claimed item survived a refused unclaim with its claimer in place.
C13_Witness ==
    /\ last.op = "unclaim" /\ last.result = "denied"
    /\ item.is_claimed /\ item.claimed_by # NULL

\* A request for transition op that got past the approval gate, the item
\* lookup and the POST check, so that the model method ran.
Ran(op) ==
    /\ ItemRequestStep
    /\ last'.op = op
    /\ last'.result \in {"ok", "denied"}

\* C14: mark_purchased succeeds for every Parent in every item state; it sets
\* is_purchased and purchased_by = actor, stamps purchased_at only when it is
\* unset, and touches nothing else.
C14_AnyParentMarksPurchased ==
    [][(Ran("mark_purchased") /\ is_parent(last'.actor)) =>
         /\ last'.result = "ok"
         /\ item' = [item EXCEPT !.is_purchased = TRUE,
                                 !.purchased_by = last'.actor,
                                 !.purchased_at = IF item.purchased_at = NoTime
                                                    THEN now ELSE item.purchased_at]]_vars

\* A later mark_purchased took over an item purchased at time 1: the purchaser
\* is the latest actor and purchased_at is still 1.
C14_Witness ==
    /\ now = 3 /\ accounts = Users
    /\ last.op = "mark_purchased" /\ last.result = "ok"
    /\ item.is_purchased /\ item.purchased_by = last.actor
    /\ item.purchased_at = 1
    /\ Cardinality({u \in Users : is_parent(u)}) >= 2

\* C15: clear_purchased succeeds for every Parent, whoever marked the item,
\* and clears is_purchased, purchased_by and purchased_at; a mark_purchased
\* that follows it records the time of that later call.
C15_AnyParentClearsPurchased ==
    [][/\ (Ran("clear_purchased") /\ is_parent(last'.actor)) =>
            /\ last'.result = "ok"
            /\ item' = [item EXCEPT !.is_purchased = FALSE,
                                    !.purchased_by = NULL,
                                    !.purchased_at = NoTime]
       /\ (/\ last.op = "clear_purchased" /\ last.result = "ok"
           /\ Ran("mark_purchased") /\ last'.result = "ok")
            => item'.purchased_at = now]_vars

\* A parent cleared a purchase and the row has no purchase state left, while
\* the two earlier requests (times 1 and 2) have passed.
C15_Witness ==
    /\ now = 4
    /\ last.op = "clear_purchased" /\ last.result = "ok"
    /\ is_parent(last.actor)
    /\ ~item.is_purchased /\ item.purchased_by = NULL /\ item.purchased_at = NoTime

\* C16: a successful unclaim sets is_claimed = FALSE and claimed_by = NULL and
\* leaves claimed_at (and every other field) as it was.
C16_UnclaimKeepsClaimedAt ==
    [][(Ran("unclaim") /\ last'.result = "ok") =>
         /\ item' = [item EXCEPT !.is_claimed = FALSE, !.claimed_by = NULL]
         /\ item'.claimed_at = item.claimed_at]_vars

\* An item that was claimed has been unclaimed and still shows when it was
\* first claimed.
C16_Witness ==
    /\ last.op = "unclaim" /\ last.result = "ok"
    /\ ~item.is_claimed /\ item.claimed_by = NULL
    /\ item.claimed_at # NoTime

ClaimFields(it) == <<it.is_claimed, it.claimed_by, it.claimed_at>>
PurchaseFields(it) == <<it.is_purchased, it.purchased_by, it.purchased_at>>
NeverClaimed(it) ==
    [it EXCEPT !.is_claimed = FALSE, !.claimed_by = NULL, !.claimed_at = NoTime]
NeverPurchased(it) ==
    [it EXCEPT !.is_purchased = FALSE, !.purchased_by = NULL, !.purchased_at = NoTime]

\* C17: mark_purchased and clear_purchased leave the claim fields unchanged
\* and succeed or fail as they would on an unclaimed item; claim and unclaim
\* leave the purchase fields unchanged and succeed or fail as they would on an
\* item nobody purchased.
C17_PurchaseIndependentOfClaim ==
    [][/\ \A op \in {"mark_purchased", "clear_purchased"} :
            Ran(op) =>
              /\ ClaimFields(item') = ClaimFields(item)
              /\ (last'.result = "denied")
                    <=> Apply(op, NeverClaimed(item), last'.actor, now).raised
       /\ \A op \in {"claim", "unclaim"} :
            Ran(op) =>
              /\ PurchaseFields(item') = PurchaseFields(item)
              /\ (last'.result = "denied")
                    <=> Apply(op, NeverPurchased(item), last'.actor, now).raised]_vars

\* A parent claimed an item that a different parent had already purchased.
C17_Witness ==
    /\ last.op = "claim" /\ last.result = "ok"
    /\ item.claimed_by = last.actor
    /\ item.is_purchased /\ item.purchased_by \in Users \ {last.actor}

\* viewer_profile, approval gate and get_object_or_404.
LoadItem(r) ==
    /\ wreq[r].pc = "start"
    /\ wreq' = [wreq EXCEPT ![r] =
                 IF ~is_approved[wreq[r].actor]
                   THEN [@ EXCEPT !.pc = "done", !.result = "pending"]
                 ELSE IF ~item.exists
                   THEN [@ EXCEPT !.pc = "done", !.result = "404"]
                 ELSE [@ EXCEPT !.pc = "loaded", !.obj = item]]
    /\ UNCHANGED <<profileVars, slotVars, item, now, last, ctx, sreq, row_lock, nameVars>>

\* The transition on the loaded copy, then item.save().
TransitionAndSave(r) ==
    /\ wreq[r].pc = "loaded"
    /\ now < MaxClock
    /\ now' = now + 1
    /\ LET res == Apply(wreq[r].op, wreq[r].obj, wreq[r].actor, now) IN
         IF res.raised
           THEN /\ item' = item
                /\ wreq' = [wreq EXCEPT ![r] = [@ EXCEPT !.pc = "done", !.result = "denied"]]
           ELSE /\ item' = res.obj
                /\ wreq' = [wreq EXCEPT ![r] =
                             [@ EXCEPT !.pc = "done", !.obj = res.obj, !.result = "ok"]]
    /\ UNCHANGED <<profileVars, slotVars, last, ctx, sreq, row_lock, nameVars>>

InitWishRace ==
    /\ accounts = Users
    /\ role \in [Users -> Roles]
    /\ family = [u \in Users |-> "f1"]
    /\ is_approved \in [Users -> BOOLEAN]
    /\ parent1 = [f \in Families |-> NULL]
    /\ parent2 = [f \in Families |-> NULL]
    /\ \E owner \in Users : item = NewItem(owner)
    /\ now = 1
    /\ last = NoOutcome
    /\ ctx = NoContext
    /\ families = Families
    /\ InitNames
    /\ InitRows
    /\ NoCalculation
    /\ wreq \in [Requests -> {[pc |-> "start", op |-> op, actor |-> u,
                               obj |-> DeletedItem, result |-> "none"] :
                                 op \in Transitions, u \in Users}]
    /\ sreq = [r \in Requests |-> IdleSlot]
    /\ row_lock = [f \in Families |-> NULL]

NextWishRace ==
    \/ \E r \in Requests : LoadItem(r)
    \/ \E r \in Requests : TransitionAndSave(r)

SpecWishRace == InitWishRace /\ [][NextWishRace]_vars

\* C2: of two overlapping claim requests by distinct approved Parents for an
\* unclaimed item at most one reports success, and the stored claimed_by is
\* the profile whose request succeeded.
C2_OneClaimWins ==
    (/\ \A r \in Requests : wreq[r].pc = "done" /\ wreq[r].op = "claim"
     /\ wreq["r1"].actor # wreq["r2"].actor
     /\ \A r \in Requests : is_parent(wreq[r].actor) /\ is_approved[wreq[r].actor])
      => /\ ~(wreq["r1"].result = "ok" /\ wreq["r2"].result = "ok")
         /\ \A r \in Requests : wreq[r].result = "ok" => item.claimed_by = wreq[r].actor

\* ------------------------------------------------------------------ Family
Row(f) == [parent1 |-> parent1[f], parent2 |-> parent2[f]]

\* Meta.constraints: the same account may not fill both slots.
\* Variant: the constraint is not declared.
no_check_constraint(row) == TRUE

family_parent1_not_equal_parent2_or_null(row) ==
    \/ row.parent1 # row.parent2
    \/ row.parent1 = NULL
    \/ row.parent2 = NULL

\* The slot logic of assign_parent_slot on the row read under the lock.
\* Variant that fills parent2 only.
fill_slot_parent2_only(row, user) ==
    IF row.parent2 = NULL THEN [row EXCEPT !.parent2 = user] ELSE row

fill_slot(row, user) ==
    IF row.parent1 = NULL THEN [row EXCEPT !.parent1 = user]
    ELSE IF row.parent2 = NULL /\ row.parent1 # user THEN [row EXCEPT !.parent2 = user]
    ELSE row

\* select_for_update(): the row lock is free or already held by this transaction.
\* Variant: a plain read that takes no lock.
reads_without_lock(r, f) == TRUE

\* Variant: a lock that its own transaction cannot take a second time.
select_for_update_not_reentrant(r, f) == row_lock[f] = NULL

select_for_update(r, f) == row_lock[f] \in {NULL, r}

\* ------------------------------------------- overlapping slot assignments
\* assign_parent_slot as three steps of one transaction: lock and read the
\* row, save the two slot fields, commit (which releases the lock).
LockAndRead(r) ==
    /\ sreq[r].pc = "start"
    /\ select_for_update(r, sreq[r].fam)
    /\ row_lock' = [row_lock EXCEPT ![sreq[r].fam] = r]
    /\ sreq' = [sreq EXCEPT ![r] = [@ EXCEPT !.pc = "locked", !.row = Row(sreq[r].fam)]]
    /\ UNCHANGED <<profileVars, slotVars, item, now, last, ctx, wreq, nameVars>>

SaveSlots(r) ==
    /\ sreq[r].pc = "locked"
    /\ LET f == sreq[r].fam
           new == fill_slot(sreq[r].row, sreq[r].user)
       IN IF family_parent1_not_equal_parent2_or_null(new)
            THEN /\ parent1' = [parent1 EXCEPT ![f] = new.parent1]
                 /\ parent2' = [parent2 EXCEPT ![f] = new.parent2]
                 /\ sreq' = [sreq EXCEPT ![r] = [@ EXCEPT !.pc = "saved", !.row = new]]
                 /\ UNCHANGED row_lock
            ELSE /\ UNCHANGED <<parent1, parent2>>
                 /\ sreq' = [sreq EXCEPT ![r] =
                              [@ EXCEPT !.pc = "done", !.result = "IntegrityError"]]
                 /\ row_lock' = [row_lock EXCEPT ![f] = IF @ = r THEN NULL ELSE @]
    /\ UNCHANGED <<profileVars, families, item, now, last, ctx, wreq, nameVars>>

Commit(r) ==
    /\ sreq[r].pc = "saved"
    /\ sreq' = [sreq EXCEPT ![r] = [@ EXCEPT !.pc = "done", !.result = "ok"]]
    /\ row_lock' = [row_lock EXCEPT ![sreq[r].fam] = IF @ = r THEN NULL ELSE @]
    /\ UNCHANGED <<profileVars, slotVars, item, now, last, ctx, wreq, nameVars>>

\* Two assignments start against families whose slots are empty.
InitSlotRace ==
    /\ accounts = Users
    /\ role \in [Users -> {ROLE_PARENT, ROLE_CHILD}]
    /\ family \in [Users -> Families]
    /\ is_approved = [u \in Users |-> FALSE]
    /\ parent1 = [f \in Families |-> NULL]
    /\ parent2 = [f \in Families |-> NULL]
    /\ item = DeletedItem
    /\ now = 1
    /\ last = NoOutcome
    /\ ctx = NoContext
    /\ families = Families
    /\ InitNames
    /\ InitRows
    /\ NoCalculation
    /\ wreq = [r \in Requests |-> IdleWish]
    /\ sreq \in [Requests -> {[pc |-> "start", user |-> u, fam |-> f, row |-> NoRow,
                               result |-> "none"] : u \in Users, f \in Families}]
    /\ \A r \in Requests : is_parent(sreq[r].user) /\ family[sreq[r].user] = sreq[r].fam
    /\ row_lock = [f \in Families |-> NULL]

NextSlotRace ==
    \/ \E r \in Requests : LockAndRead(r)
    \/ \E r \in Requests : SaveSlots(r)
    \/ \E r \in Requests : Commit(r)

SpecSlotRace == InitSlotRace /\ [][NextSlotRace]_vars

BothAssignedSameFamily ==
    /\ \A r \in Requests : sreq[r].pc = "done"
    /\ sreq["r1"].fam = sreq["r2"].fam
    /\ sreq["r1"].user # sreq["r2"].user

\* C3: after two overlapping assign_parent_slot calls for distinct accounts on
\* a family whose slots were empty, one account is parent1 and the other is
\* parent2.
C3_BothSlotsFilled ==
    BothAssignedSameFamily =>
      LET f == sreq["r1"].fam IN
        /\ {parent1[f], parent2[f]} = {sreq["r1"].user, sreq["r2"].user}
        /\ \A r \in Requests : sreq[r].result = "ok"

\* Both calls returned and the second request's account got parent1.
C3_Witness ==
    /\ BothAssignedSameFamily
    /\ parent1[sreq["r1"].fam] = sreq["r2"].user
    /\ parent2[sreq["r1"].fam] = sreq["r1"].user

\* ------------------------------------------- non-overlapping slot assignments
\* assign_parent_slot run to completion: the new row, or IntegrityError from
\* the check constraint with the row left as it was.
assign_parent_slot(row, user) ==
    LET new == fill_slot(row, user) IN
      IF family_parent1_not_equal_parent2_or_null(new)
        THEN [raised |-> FALSE, row |-> new]
        ELSE [raised |-> TRUE, row |-> row]

\* The slugs of the Family rows other than f.
OtherSlugs(f) == {slug[g] : g \in families \ {f}}

\* register: a new account with a Parent profile creates a family (a name is
\* given) or joins one (no name), then takes a slot. The whole view is one
\* transaction.
register(u, f, new_family_name) ==
    /\ u \notin accounts
    /\ (f \notin families) <=> (new_family_name # NoName)
    /\ LET res == assign_parent_slot(IF f \in families THEN Row(f) ELSE NoRow, u) IN
         IF res.raised
           THEN /\ UNCHANGED <<profileVars, slotVars, nameVars>>
                /\ last' = Outcome("register", u, "IntegrityError")
           ELSE /\ accounts' = accounts \cup {u}
                /\ role' = [role EXCEPT ![u] = ROLE_PARENT]
                /\ family' = [family EXCEPT ![u] = f]
                /\ is_approved' = [is_approved EXCEPT ![u] = FALSE]
                /\ profiles' = [profiles EXCEPT ![u] = get_or_create(User_save(TRUE, @))]
                /\ auth_user' = [auth_user EXCEPT ![u] = FullUser(u)]
                /\ UNCHANGED <<avatarVars, dateVars>>
                /\ families' = families \cup {f}
                /\ IF f \in families
                     THEN UNCHANGED nameVars
                     ELSE /\ display_name' = [display_name EXCEPT ![f] = new_family_name]
                          /\ slug' = [slug EXCEPT
                                        ![f] = unique_slug(new_family_name, OtherSlugs(f))]
                /\ parent1' = [parent1 EXCEPT ![f] = res.row.parent1]
                /\ parent2' = [parent2 EXCEPT ![f] = res.row.parent2]
                /\ last' = Outcome("register", u, "ok")
    /\ UNCHANGED <<item, now, ctx, flightVars>>

\* What a ClearableFileInput leaves in a file field: the stored file when
\* nothing is submitted, none when "clear" is ticked, else the new file.
FileData == {"keep", "clear"} \cup (Uploads \ {NoFile})

save_form_data(stored, data) ==
    IF data = "keep" THEN stored ELSE IF data = "clear" THEN NoFile ELSE data

\* The avatar fields of a submitted form, and the submission that repeats
\* what the form was rendered with.
AvatarData == [avatar_source : AvatarSources, avatar_library_filename : Filenames,
               avatar_upload : FileData]
StoredAvatar(u) == [avatar_source |-> avatar_source[u],
                    avatar_library_filename |-> avatar_library_filename[u],
                    avatar_upload |-> "keep"]

\* ProfileSetupForm.save: ModelForm.save, the submitted fields as they are
\* (the clean and save that normalise are nested inside __init__).
ProfileSetupForm_save(u, data) ==
    [avatar_source |-> data.avatar_source,
     avatar_library_filename |-> data.avatar_library_filename,
     avatar_upload |-> save_form_data(avatar_upload[u], data.avatar_upload)]

\* ProfileEditForm.save: the fields not matching the source are emptied.
ProfileEditForm_save(u, data) ==
    LET src == data.avatar_source IN
      [avatar_source |-> src,
       avatar_library_filename |->
           IF src \in {AVATAR_SOURCE_DEFAULT, AVATAR_SOURCE_UPLOAD} THEN ""
           ELSE data.avatar_library_filename,
       avatar_upload |->
           IF src \in {AVATAR_SOURCE_DEFAULT, AVATAR_SOURCE_LIBRARY} THEN NoFile
           ELSE save_form_data(avatar_upload[u], data.avatar_upload)]

SaveAvatar(u, av) ==
    /\ avatar_source' = [avatar_source EXCEPT ![u] = av.avatar_source]
    /\ avatar_library_filename' =
           [avatar_library_filename EXCEPT ![u] = av.avatar_library_filename]
    /\ avatar_upload' = [avatar_upload EXCEPT ![u] = av.avatar_upload]

\* profile_setup, POST: the slot is assigned before the profile is saved, so
\* an IntegrityError leaves nothing saved.
profile_setup_post(u, new_role, new_family, data) ==
    /\ u \in accounts
    /\ new_family \in families \cup {NULL}
    /\ profiles' = [profiles EXCEPT ![u] = get_or_create(@)]
    /\ IF new_role = ROLE_PARENT /\ new_family # NULL
         THEN LET res == assign_parent_slot(Row(new_family), u) IN
                IF res.raised
                  THEN /\ UNCHANGED <<role, family, parent1, parent2, avatarVars>>
                       /\ last' = Outcome("profile_setup", u, "IntegrityError")
                  ELSE /\ parent1' = [parent1 EXCEPT ![new_family] = res.row.parent1]
                       /\ parent2' = [parent2 EXCEPT ![new_family] = res.row.parent2]
                       /\ role' = [role EXCEPT ![u] = new_role]
                       /\ family' = [family EXCEPT ![u] = new_family]
                       /\ SaveAvatar(u, ProfileSetupForm_save(u, data))
                       /\ last' = Outcome("profile_setup", u, "ok")
         ELSE /\ role' = [role EXCEPT ![u] = new_role]
              /\ family' = [family EXCEPT ![u] = new_family]
              /\ SaveAvatar(u, ProfileSetupForm_save(u, data))
              /\ UNCHANGED <<parent1, parent2>>
              /\ last' = Outcome("profile_setup", u, "ok")
    /\ UNCHANGED <<accounts, is_approved, auth_user, dateVars, families, item, now, ctx,
                   flightVars, nameVars>>

\* profile_setup with the avatar inputs left as the form rendered them.
profile_setup(u, new_role, new_family) ==
    profile_setup_post(u, new_role, new_family, StoredAvatar(u))

\* The user fields of ProfileEditForm; clean_email refuses an address another
\* account has.
UserData(u) == [first_name : {NoName, first_name[u]}, last_name : {"", "n"},
                email : Emails]

clean_email(u, e) ==
    e = "" \/ ~\E w \in accounts \ {u} : auth_user[w].email = e

\* Meta.fields of ProfileEditForm: a posted value for any other Profile field,
\* such as is_approved=on, is ignored.
ProfileEditForm_fields_and_approval ==
    {"first_name", "last_name", "username", "email", "family", "role", "avatar_source",
     "avatar_library_filename", "avatar_upload", "birthday", "anniversary",
     "shirt_size", "pants_size", "shoe_size", "hobbies_sports", "favorite_stores",
     "favorite_websites", "private_notes", "is_approved"}

ProfileEditForm_fields ==
    {"first_name", "last_name", "username", "email", "family", "role", "avatar_source",
     "avatar_library_filename", "avatar_upload", "birthday", "anniversary",
     "shirt_size", "pants_size", "shoe_size", "hobbies_sports", "favorite_stores",
     "favorite_websites", "private_notes"}

\* profile_edit, POST: the profile is saved first, the slot assigned
\* afterwards, so an IntegrityError leaves the profile change in place.
profile_edit_post(viewer, target, new_role, new_family, data, usr) ==
    /\ viewer \in accounts
    /\ new_family \in families \cup {NULL}
    /\ IF \/ profiles[viewer] = 0
          \/ target \notin accounts
          \/ (target # viewer /\ ~can_edit_profile(viewer, target))
         THEN /\ UNCHANGED <<role, family, is_approved, parent1, parent2, avatarVars,
                             auth_user>>
              /\ last' = Outcome("profile_edit", viewer, "404")
         ELSE IF ~clean_email(target, usr.email)
         THEN /\ UNCHANGED <<role, family, is_approved, parent1, parent2, avatarVars,
                             auth_user>>
              /\ last' = Outcome("profile_edit", viewer, "invalid")
         ELSE /\ role' = [role EXCEPT ![target] = new_role]
              /\ family' = [family EXCEPT ![target] = new_family]
              /\ is_approved' = [is_approved EXCEPT ![target] =
                                   IF "is_approved" \in ProfileEditForm_fields
                                     THEN TRUE ELSE @]
              /\ auth_user' = [auth_user EXCEPT ![target] = usr]
              /\ SaveAvatar(target, ProfileEditForm_save(target, data))
              /\ IF new_role = ROLE_PARENT /\ new_family # NULL
                   THEN LET res == assign_parent_slot(Row(new_family), target) IN
                          /\ parent1' = [parent1 EXCEPT ![new_family] = res.row.parent1]
                          /\ parent2' = [parent2 EXCEPT ![new_family] = res.row.parent2]
                          /\ last' = Outcome("profile_edit", viewer,
                                             IF res.raised THEN "IntegrityError" ELSE "ok")
                   ELSE /\ UNCHANGED <<parent1, parent2>>
                        /\ last' = Outcome("profile_edit", viewer, "ok")
    /\ UNCHANGED <<accounts, profiles, dateVars, families, item, now, ctx,
                   flightVars, nameVars>>

\* profile_edit with the avatar and user inputs left as the form rendered them.
profile_edit(viewer, target, new_role, new_family) ==
    profile_edit_post(viewer, target, new_role, new_family, StoredAvatar(target),
                      auth_user[target])

\* One family row and three accounts: the slot logic touches one Family row
\* at a time, so one row shows every slot configuration.
SlotFamilies == {"f1"}

\* An empty database, or one where an administrator has created the family.
InitSlots ==
    /\ accounts = {}
    /\ role = [u \in Users |-> ""]
    /\ family = [u \in Users |-> NULL]
    /\ is_approved = [u \in Users |-> FALSE]
    /\ parent1 = [f \in Families |-> NULL]
    /\ parent2 = [f \in Families |-> NULL]
    /\ item = DeletedItem
    /\ now = 1
    /\ last = NoOutcome
    /\ ctx = NoContext
    /\ families \in SUBSET SlotFamilies
    /\ InitNames
    /\ InitRows
    /\ NoCalculation
    /\ NoFlight

NextSlots ==
    \/ \E u \in Users, f \in SlotFamilies :
         \E name \in {NoName, SeedName[f]} : register(u, f, name)
    \/ \E u \in Users, ro \in Roles, f \in SlotFamilies \cup {NULL} : profile_setup(u, ro, f)
    \/ \E v \in Users, t \in Users, ro \in Roles, f \in SlotFamilies \cup {NULL} :
         profile_edit(v, t, ro, f)
    \/ \E u \in Users : RemoveAccount(u)

SpecSlots == InitSlots /\ [][NextSlots]_vars

\* C4: the two parent slots of a family, when both set, hold different
\* accounts.
C4_SlotsDistinct ==
    \A f \in Families :
      (parent1[f] # NULL /\ parent2[f] # NULL) => parent1[f] # parent2[f]

\* The account in parent2 asked for a slot after parent1 had been emptied by
\* an account removal; the assignment was refused and parent1 stayed empty.
C4_Witness ==
    /\ last.result = "IntegrityError"
    /\ \E f \in Families : parent1[f] = NULL /\ parent2[f] \in accounts

\* A request that runs assign_parent_slot for candidate u on family f.
AssignsSlot(u, f) ==
    \/ \E name \in {NoName, SeedName[f]} : register(u, f, name)
    \/ profile_setup(u, ROLE_PARENT, f)
    \/ \E viewer \in Users : profile_edit(viewer, u, ROLE_PARENT, f) /\ last'.result # "404"

\* C12: assign_parent_slot(candidate) sets parent1 when parent1 is empty;
\* otherwise sets parent2 when parent2 is empty and the candidate is not
\* parent1; otherwise it changes neither slot.
C12_SlotOrder ==
    [][\A u \in Users, f \in Families :
         AssignsSlot(u, f) =>
           IF parent1[f] = NULL
             THEN parent1'[f] = u /\ parent2'[f] = parent2[f]
           ELSE IF parent2[f] = NULL /\ parent1[f] # u
             THEN parent1'[f] = parent1[f] /\ parent2'[f] = u
           ELSE parent1'[f] = parent1[f] /\ parent2'[f] = parent2[f]]_vars

\* C20: removing an account never deletes a Family; the slots that referenced
\* the account become empty and the other slots stay; and whenever a family
\* has an empty slot, assign_parent_slot for a Parent account that is in
\* neither slot puts that account in an empty slot and keeps the filled one.
C20_RemovalReopensSlot ==
    [][/\ \A u \in Users :
            (u \in accounts /\ u \notin accounts') =>
              /\ families' = families
              /\ \A f \in Families :
                   /\ parent1'[f] = IF parent1[f] = u THEN NULL ELSE parent1[f]
                   /\ parent2'[f] = IF parent2[f] = u THEN NULL ELSE parent2[f]
       /\ \A c \in Users, f \in Families :
            (/\ AssignsSlot(c, f)
             /\ c \notin {parent1[f], parent2[f]}
             /\ NULL \in {parent1[f], parent2[f]})
              => /\ last'.result = "ok"
                 /\ \/ parent1[f] = NULL /\ parent1'[f] = c /\ parent2'[f] = parent2[f]
                    \/ parent2[f] = NULL /\ parent2'[f] = c /\ parent1'[f] = parent1[f]]_vars

\* A newly registered account holds parent1 next to an older parent2: parent1
\* had been emptied by the removal of the account that held it.
C20_Witness ==
    /\ last.op = "register" /\ last.result = "ok"
    /\ \E f \in families :
         /\ parent1[f] = last.actor
         /\ parent2[f] \in accounts \ {last.actor}

\* ------------------------------------------------------------ wishlist CRUD
\* No items yet; roles, families and approvals of the three profiles are
\* arbitrary.
InitCrud ==
    /\ accounts = Users
    /\ role \in [Users -> Roles]
    /\ family \in {fm \in [Users -> Families] : fm["u1"] = "f1"}
    /\ is_approved \in [Users -> BOOLEAN]
    /\ parent1 = [f \in Families |-> NULL]
    /\ parent2 = [f \in Families |-> NULL]
    /\ item = DeletedItem
    /\ now = 1
    /\ last = NoOutcome
    /\ ctx = NoContext
    /\ families = Families
    /\ InitNames
    /\ InitRows
    /\ NoCalculation
    /\ NoFlight

NextCrud ==
    \/ \E u \in Users, t \in Users, m \in Methods, ti \in Titles : add_wishlist_item(u, t, m, ti)
    \/ \E u \in Users, m \in Methods, ti \in Titles : edit_wishlist_item(u, m, ti)
    \/ \E u \in Users, m \in Methods : delete_wishlist_item(u, m)
    \/ \E u \in Users : RemoveAccount(u)

SpecCrud == InitCrud /\ [][NextCrud]_vars

\* C18: an item is created for, edited on or deleted from a target profile
\* only by the target itself or by a Parent of the target Child's family; a
\* request by any other profile is rejected and leaves the items unchanged.
C18_CrudOnlyByAuthorized ==
    [][\A op \in {"add", "edit", "delete"} :
         last'.op = op =>
           LET target == IF op = "add" THEN item'.profile ELSE item.profile IN
             IF last'.result = "ok"
               THEN \/ last'.actor = target
                    \/ /\ role[last'.actor] = ROLE_PARENT
                       /\ role[target] = ROLE_CHILD
                       /\ SameFamily(last'.actor, target)
               ELSE item' = item]_vars

\* ------------------------------------------------------------ Family.save
\* Family.save on the row of f: a blank display name is generated from the
\* parents, a blank slug from the display name; both are then stored.
Family_save(f, name, p1, p2) ==
    LET dn == IF name = NoName THEN auto_display_name(p1, p2) ELSE name IN
      /\ display_name' = [display_name EXCEPT ![f] = dn]
      /\ slug' = [slug EXCEPT ![f] = IF slug[f] = NoName
                                        THEN unique_slug(dn, OtherSlugs(f)) ELSE @]
      /\ parent1' = [parent1 EXCEPT ![f] = p1]
      /\ parent2' = [parent2 EXCEPT ![f] = p2]

\* The choices FamilySetupForm offers for a parent slot.
ParentChoices == {NULL} \cup {u \in accounts : is_parent(u)}

\* Family.clean, run by the form's validation.
Family_clean(p1, p2) == ~(p1 # NULL /\ p2 # NULL /\ p1 = p2)

\* Primary keys are handed out in order.
FamilyOrder == <<"f1", "f2", "f3">>

\* family_manage_create: the administrator adds a Family row.
family_manage_create(f, name, p1, p2) ==
    /\ f \in FamilyIds \ families
    /\ f = FamilyOrder[Cardinality(families) + 1]
    /\ p1 \in ParentChoices /\ p2 \in ParentChoices
    /\ IF Family_clean(p1, p2)
         THEN /\ families' = families \cup {f}
              /\ Family_save(f, name, p1, p2)
              /\ last' = Outcome("family_manage_create", "admin", "ok")
         ELSE /\ UNCHANGED <<slotVars, nameVars>>
              /\ last' = Outcome("family_manage_create", "admin", "invalid")
    /\ UNCHANGED <<profileVars, item, now, ctx, flightVars>>

\* family_manage_update: the administrator edits the name and the parents.
family_manage_update(f, name, p1, p2) ==
    /\ f \in families
    /\ p1 \in ParentChoices /\ p2 \in ParentChoices
    /\ IF Family_clean(p1, p2)
         THEN /\ UNCHANGED families
              /\ Family_save(f, name, p1, p2)
              /\ last' = Outcome("family_manage_update", "admin", "ok")
         ELSE /\ UNCHANGED <<slotVars, nameVars>>
              /\ last' = Outcome("family_manage_update", "admin", "invalid")
    /\ UNCHANGED <<profileVars, item, now, ctx, flightVars>>

\* Display names typed into the forms: blank, mixed case, one that slugifies
\* to another one's first suffixed slug, and one with no word character.
SlugNames == {NoName, Str_Sm, Str_sm_1, Str_nonword}

\* Display names typed when a row is edited: blank (regenerate it from the
\* parents) or one whose slug another family may hold.
RenameTo == {NoName, Str_sm_1}

\* The parents the administrator picks for a new row: none, one in either
\* slot, both, or by mistake the same account twice.
SlugParents == {<<NULL, NULL>>, <<"u1", NULL>>, <<NULL, "u2">>, <<"u1", "u2">>,
                <<"u1", "u1">>}

\* No Family rows yet; the accounts exist and have no family.
InitSlug ==
    /\ accounts = Users
    /\ role = [u \in Users |-> IF u = "u3" THEN ROLE_CHILD ELSE ROLE_PARENT]
    /\ family = [u \in Users |-> NULL]
    /\ is_approved = [u \in Users |-> TRUE]
    /\ parent1 = [f \in FamilyIds |-> NULL]
    /\ parent2 = [f \in FamilyIds |-> NULL]
    /\ item = DeletedItem
    /\ now = 1
    /\ last = NoOutcome
    /\ ctx = NoContext
    /\ families = {}
    /\ display_name = [f \in FamilyIds |-> NoName]
    /\ slug = [f \in FamilyIds |-> NoName]
    /\ InitRows
    /\ NoCalculation
    /\ NoFlight

\* Creation with each choice of parents; later saves that change the display
\* name and resubmit the stored parents.
NextSlug ==
    \/ \E f \in FamilyIds, name \in SlugNames, ps \in SlugParents :
         family_manage_create(f, name, ps[1], ps[2])
    \/ \E f \in FamilyIds, name \in RenameTo :
         \E ps \in {<<parent1[f], parent2[f]>>, <<"u1", "u1">>} :
           family_manage_update(f, name, ps[1], ps[2])

SpecSlug == InitSlug /\ [][NextSlug]_vars

\* A Family row is saved for the first time in this step.
FirstSave(f) == f \notin families /\ f \in families'

Suffixed(base, n) == base \o <<"-">> \o Decimal(n)

\* slug is base if nobody else uses it, else the first unused of base-1,
\* base-2, ...
FirstUnusedOf(base, used, sl) ==
    IF base \notin used THEN sl = base
    ELSE \E n \in 1..Cardinality(FamilyIds) :
           /\ sl = Suffixed(base, n)
           /\ sl \notin used
           /\ \A k \in 1..(n - 1) : Suffixed(base, k) \in used

UniqueSlugs ==
    \A f \in families, g \in families : f # g => slug[f] # slug[g]

\* C19 as amended: no two families have the same slug; a family saved
\* without a slug gets base, or the first unused of base-1, base-2, ..., where
\* base is the slugified display name, or "family" when slugifying the display
\* name leaves nothing; a slug once assigned is not changed by later saves.
C19_SlugUniqueAndStable ==
    [][/\ UniqueSlugs'
       /\ \A f \in FamilyIds :
            /\ FirstSave(f) =>
                 LET base == IF slugify(display_name'[f]) # <<>>
                               THEN slugify(display_name'[f]) ELSE Str_family
                 IN FirstUnusedOf(base, OtherSlugs(f), slug'[f])
            /\ f \in families => slug'[f] = slug[f]]_vars

\* Two families both named "Sm" hold the slugs sm and sm-1, and a family
\* whose name has no word character holds the slug family.
C19_Witness ==
    /\ families = FamilyIds
    /\ \E f \in families, g \in families, h \in families :
         /\ display_name[f] = Str_Sm /\ slug[f] = <<"s", "m">>
         /\ display_name[g] = Str_Sm /\ slug[g] = <<"s", "m", "-", "1">>
         /\ display_name[h] = Str_nonword /\ slug[h] = Str_family

\* C19: no two families have the same slug; a family saved without a slug
\* gets the slugified display name if no other family uses it, otherwise the
\* first unused of base-1, base-2, ...; a slug once assigned is not changed by
\* later saves.
C19_SlugIsSlugifiedName ==
    [][/\ UniqueSlugs'
       /\ \A f \in FamilyIds :
            /\ FirstSave(f) =>
                 FirstUnusedOf(slugify(display_name'[f]), OtherSlugs(f), slug'[f])
            /\ f \in families => slug'[f] = slug[f]]_vars

\* -------------------------------------------- accounts, profiles and approval
\* Profile.is_complete: names and e-mail set, and the avatar the source names
\* is there.
is_complete_any_avatar(u) ==
    auth_user[u].first_name # NoName /\ auth_user[u].last_name # ""
        /\ auth_user[u].email # ""

is_complete(u) ==
    IF auth_user[u].first_name = NoName \/ auth_user[u].last_name = ""
          \/ auth_user[u].email = ""
      THEN FALSE
    ELSE IF avatar_source[u] = AVATAR_SOURCE_UPLOAD THEN avatar_upload[u] # NoFile
    ELSE IF avatar_source[u] = AVATAR_SOURCE_LIBRARY THEN avatar_library_filename[u] # ""
    ELSE TRUE

\* The view helper with the same rule.
_profile_complete(u) ==
    IF ~(auth_user[u].first_name # NoName /\ auth_user[u].last_name # ""
           /\ auth_user[u].email # "")
      THEN FALSE
    ELSE IF avatar_source[u] = AVATAR_SOURCE_UPLOAD THEN avatar_upload[u] # NoFile
    ELSE IF avatar_source[u] = AVATAR_SOURCE_LIBRARY THEN avatar_library_filename[u] # ""
    ELSE TRUE

\* home, signed in: the Profile is fetched or created, then the request is
\* sent on to the page its state calls for.
home(u) ==
    /\ u \in accounts
    /\ profiles' = [profiles EXCEPT ![u] = get_or_create(@)]
    /\ last' = Outcome("home", u,
                       IF is_parent(u) /\ ~is_approved[u] THEN "pending_approval"
                       ELSE IF ~_profile_complete(u) THEN "profile_edit"
                       ELSE "all_families")
    /\ UNCHANGED <<accounts, role, family, is_approved, avatarVars, auth_user, dateVars,
                   slotVars, item, now, ctx, flightVars, nameVars>>

\* A view behind ensure_profile(required_family=True), such as family_home.
ensure_profile(u) ==
    /\ u \in accounts
    /\ profiles' = [profiles EXCEPT ![u] = get_or_create(@)]
    /\ last' = Outcome("family_home", u,
                       IF is_parent(u) /\ ~is_approved[u] THEN "pending_approval"
                       ELSE IF is_parent(u) /\ family[u] = NULL THEN "profile_setup"
                       ELSE "ok")
    /\ UNCHANGED <<accounts, role, family, is_approved, avatarVars, auth_user, dateVars,
                   slotVars, item, now, ctx, flightVars, nameVars>>

\* add_child: a Parent with a family creates a Child account in that family,
\* approved at once. The e-mail address is optional. The gate tests the role.
add_child_gate(parent) == is_parent(parent)

add_child(parent, child, method, mail) ==
    /\ parent \in accounts
    /\ child \notin accounts
    /\ IF ~add_child_gate(parent)
         THEN /\ UNCHANGED profileVars
              /\ last' = Outcome("add_child", parent, "404")
         ELSE IF family[parent] = NULL
         THEN /\ UNCHANGED profileVars
              /\ last' = Outcome("add_child", parent, "profile_setup")
         ELSE IF method # "POST"
         THEN /\ UNCHANGED profileVars
              /\ last' = Outcome("add_child", parent, "form")
         ELSE /\ accounts' = accounts \cup {child}
              /\ auth_user' = [auth_user EXCEPT ![child] = [FullUser(child) EXCEPT !.email = mail]]
              /\ profiles' = [profiles EXCEPT ![child] = get_or_create(User_save(TRUE, @))]
              /\ role' = [role EXCEPT ![child] = ROLE_CHILD]
              /\ family' = [family EXCEPT ![child] = family[parent]]
              /\ is_approved' = [is_approved EXCEPT ![child] = TRUE]
              /\ UNCHANGED <<avatarVars, dateVars>>
              /\ last' = Outcome("add_child", parent, "ok")
    /\ UNCHANGED <<slotVars, item, now, ctx, flightVars, nameVars>>

\* The administrator sets is_approved on the Profile change page.
ProfileAdmin_save(u, approved) ==
    /\ u \in accounts
    /\ is_approved' = [is_approved EXCEPT ![u] = approved]
    /\ last' = Outcome("admin", NULL, "ok")
    /\ UNCHANGED <<accounts, role, family, profiles, avatarVars, auth_user, dateVars,
                   slotVars, item, now, ctx, flightVars, nameVars>>

\* Two people who register, are added as children, edit profiles and are
\* removed again.
AccountUsers == {"u1", "u2"}

\* An empty database, or one where an administrator has created the family.
InitAccounts ==
    /\ accounts = {}
    /\ role = [u \in Users |-> ""]
    /\ family = [u \in Users |-> NULL]
    /\ is_approved = [u \in Users |-> FALSE]
    /\ parent1 = [f \in Families |-> NULL]
    /\ parent2 = [f \in Families |-> NULL]
    /\ item = DeletedItem
    /\ now = 1
    /\ last = NoOutcome
    /\ ctx = NoContext
    /\ families \in SUBSET SlotFamilies
    /\ InitNames
    /\ InitRows
    /\ NoCalculation
    /\ NoFlight

NextAccounts ==
    \/ \E u \in AccountUsers, f \in SlotFamilies :
         \E name \in {NoName, SeedName[f]} : register(u, f, name)
    \/ \E u \in AccountUsers, c \in AccountUsers, m \in Methods :
         \E mail \in {"", OwnEmail[c]} : add_child(u, c, m, mail)
    \/ \E u \in AccountUsers : home(u)
    \/ \E u \in AccountUsers : ensure_profile(u)
    \/ \E u \in AccountUsers, ro \in Roles, f \in SlotFamilies \cup {NULL} :
         profile_setup(u, ro, f)
    \/ \E v \in AccountUsers, t \in AccountUsers, ro \in Roles,
          f \in SlotFamilies \cup {NULL} : profile_edit(v, t, ro, f)
    \/ \E u \in AccountUsers, b \in BOOLEAN : ProfileAdmin_save(u, b)
    \/ \E u \in AccountUsers : add_wishlist_item(u, u, "POST", "a")
    \/ \E u \in AccountUsers : RemoveAccount(u)

SpecAccounts == InitAccounts /\ [][NextAccounts]_vars

InitForms ==
    /\ accounts = Users
    /\ role = [u \in Users |-> IF u = "u3" THEN ROLE_CHILD ELSE ROLE_PARENT]
    /\ family = [u \in Users |-> "f1"]
    /\ is_approved = [u \in Users |-> TRUE]
    /\ parent1 = [f \in Families |-> IF f = "f1" THEN "u1" ELSE NULL]
    /\ parent2 = [f \in Families |-> IF f = "f1" THEN "u2" ELSE NULL]
    /\ item = DeletedItem
    /\ now = 1
    /\ last = NoOutcome
    /\ ctx = NoContext
    /\ families = Families
    /\ InitNames
    /\ InitRows
    /\ NoCalculation
    /\ NoFlight

\* A call of p.is_complete() on the stored rows.
call_is_complete(u) ==
    /\ u \in accounts
    /\ last' = Outcome("is_complete", u, IF is_complete(u) THEN "True" ELSE "False")
    /\ UNCHANGED <<profileVars, slotVars, item, now, ctx, flightVars, nameVars>>

\* A parent saves its profile through either form with every avatar
\* submission, keeping role and family, visits home and has the completeness
\* of its profile computed.
FormUsers == {"u1"}

NextForms ==
    \/ \E u \in FormUsers, data \in AvatarData :
         profile_setup_post(u, role[u], family[u], data)
    \/ \E u \in FormUsers, data \in AvatarData :
         \E usr \in UserData(u) : profile_edit_post(u, u, role[u], family[u], data, usr)
    \/ \E u \in FormUsers : home(u)
    \/ \E u \in FormUsers : call_is_complete(u)

SpecForms == InitForms /\ [][NextForms]_vars

Normalised(u) ==
    /\ avatar_source[u] = AVATAR_SOURCE_DEFAULT =>
          avatar_library_filename[u] = "" /\ avatar_upload[u] = NoFile
    /\ avatar_source[u] = AVATAR_SOURCE_LIBRARY => avatar_upload[u] = NoFile
    /\ avatar_source[u] = AVATAR_SOURCE_UPLOAD => avatar_library_filename[u] = ""

\* C23: after a save through ProfileSetupForm or ProfileEditForm only the
\* avatar field that matches avatar_source carries data.
C23_AvatarNormalised ==
    \A u \in accounts :
        (last.op \in {"profile_setup", "profile_edit"} /\ last.result = "ok"
           /\ last.actor = u) => Normalised(u)

NamesSet(u) ==
    auth_user[u].first_name # NoName /\ auth_user[u].last_name # ""
        /\ auth_user[u].email # ""

AvatarConsistent(u) ==
    /\ avatar_source[u] = AVATAR_SOURCE_UPLOAD => avatar_upload[u] # NoFile
    /\ avatar_source[u] = AVATAR_SOURCE_LIBRARY => avatar_library_filename[u] # ""

\* C24: is_complete() returns true exactly when first name, last name and
\* e-mail are all set and the avatar the source names is present (always so
\* for the default source); it returns false whenever one of the three is
\* empty, whatever the avatar fields hold.
C24_IsComplete ==
    \A u \in accounts :
        /\ is_complete(u) <=> (NamesSet(u) /\ AvatarConsistent(u))
        /\ ~NamesSet(u) => ~is_complete(u)
        /\ (last.op = "is_complete" /\ last.actor = u) =>
              (last.result = "True" <=> (NamesSet(u) /\ AvatarConsistent(u)))

\* is_complete() has returned false for a profile with all three names set
\* whose source is the library and whose library filename is empty.
C24_Witness ==
    /\ last = Outcome("is_complete", "u1", "False")
    /\ NamesSet("u1")
    /\ avatar_source["u1"] = AVATAR_SOURCE_LIBRARY
    /\ avatar_library_filename["u1"] = ""

\* ------------------------------------------------ next-occurrence calculators
is_leap(y) == (y % 4 = 0 /\ y % 100 # 0) \/ y % 400 = 0

days_in_month(y, m) ==
    IF m = 2 THEN (IF is_leap(y) THEN 29 ELSE 28)
    ELSE IF m \in {4, 6, 9, 11} THEN 30 ELSE 31

\* date(y, m, d) and d.replace(...): ValueError when the month has no such day.
date(y, m, d) ==
    IF d <= days_in_month(y, m) THEN [raised |-> FALSE, date |-> Date(y, m, d)]
    ELSE [raised |-> TRUE, date |-> NoDate]

\* a < b on dates.
Before(a, b) ==
    \/ a.year < b.year
    \/ a.year = b.year /\ a.month < b.month
    \/ a.year = b.year /\ a.month = b.month /\ a.day < b.day

\* Profile.next_birthday_date and Profile.next_anniversary_date.
next_birthday_date(d, t) ==
    IF d = NoDate THEN NoResult
    ELSE LET next == date(t.year, d.month, d.day) IN
           IF next.raised THEN next
           ELSE IF Before(next.date, t) THEN date(t.year + 1, d.month, d.day)
           ELSE next

\* _next_occurrence as the gifter views module leaves it defined: the last of
\* its three definitions, with the fallback to the 28th.
_next_occurrence(d, t) ==
    IF d = NoDate THEN NoResult
    ELSE LET first == date(t.year, d.month, d.day)
             this_year == IF first.raised THEN date(t.year, d.month, 28) ELSE first
         IN IF ~Before(this_year.date, t) THEN this_year
            ELSE date(t.year + 1, this_year.date.month, this_year.date.day)

\* The birthday and anniversary loop of accounts family_detail.
family_detail_next(d, t) ==
    IF d = NoDate THEN NoResult
    ELSE LET next_bday == date(t.year, d.month, d.day) IN
           IF next_bday.raised THEN next_bday
           ELSE IF Before(next_bday.date, t) THEN date(t.year + 1, d.month, d.day)
           ELSE next_bday

\* A page computes the next occurrence of the stored date.
Calculate(op, res) ==
    /\ next_dt' = res
    /\ last' = Outcome(op, NULL, IF res.raised THEN "ValueError" ELSE "ok")
    /\ UNCHANGED <<accounts, role, family, is_approved, profiles, avatarVars, auth_user,
                   today, occasion, slotVars, item, now, ctx, flightVars, nameVars>>

profile_next_birthday == Calculate("next_birthday_date", next_birthday_date(occasion, today))
family_upcoming == Calculate("_next_occurrence", _next_occurrence(occasion, today))
family_detail == Calculate("family_detail", family_detail_next(occasion, today))

\* Days around the end of February and of the year, in a year before a leap
\* year, a leap year and the year after; stored dates from the leap year 2000.
MonthDays == {<<1, 1>>, <<2, 28>>, <<2, 29>>, <<3, 1>>, <<12, 31>>}
DatesOf(years) ==
    {Date(y, md[1], md[2]) : y \in years, md \in MonthDays}
        \ {Date(y, 2, 29) : y \in {z \in years : ~is_leap(z)}}
Todays == DatesOf({2023, 2024, 2025})
Occasions == DatesOf({2000}) \cup {NoDate}

InitDates ==
    /\ accounts = Users
    /\ role = [u \in Users |-> IF u = "u3" THEN ROLE_CHILD ELSE ROLE_PARENT]
    /\ family = [u \in Users |-> "f1"]
    /\ is_approved = [u \in Users |-> TRUE]
    /\ parent1 = [f \in Families |-> IF f = "f1" THEN "u1" ELSE NULL]
    /\ parent2 = [f \in Families |-> IF f = "f1" THEN "u2" ELSE NULL]
    /\ item = DeletedItem
    /\ now = 1
    /\ last = NoOutcome
    /\ ctx = NoContext
    /\ families = Families
    /\ InitNames
    /\ InitRows
    /\ today \in Todays
    /\ occasion \in Occasions
    /\ next_dt = NoResult
    /\ NoFlight

NextDates ==
    \/ profile_next_birthday
    \/ family_upcoming
    \/ family_detail

SpecDates == InitDates /\ [][NextDates]_vars

OneYearAfter(t) == Date(t.year + 1, t.month, t.day)

\* The stored month and day, or for February 29 in a year without it the day
\* before or after.
SameMonthDay(r, d, y) ==
    \/ r.month = d.month /\ r.day = d.day
    \/ /\ d.month = 2 /\ d.day = 29 /\ ~is_leap(y)
       /\ <<r.month, r.day>> \in {<<2, 28>>, <<3, 1>>}

\* C25: for every stored month/day and every today each calculator returns a
\* date without raising; the date is on or after today, at most one year
\* after today, and has the stored month/day, February 29 being replaced by a
\* nearby day in a year without it.
C25_NextOccurrence ==
    (occasion # NoDate /\ last.op # "none") =>
        /\ ~next_dt.raised
        /\ ~Before(next_dt.date, today)
        /\ ~Before(OneYearAfter(today), next_dt.date)
        /\ SameMonthDay(next_dt.date, occasion, next_dt.date.year)

\* ------------------------------------------------ slot assignment terminates
\* profile_setup and profile_edit lock the Family row in the view before they
\* call assign_parent_slot, which locks it again in the same transaction;
\* register calls assign_parent_slot directly.
ViewLock(r) ==
    /\ sreq[r].pc = "view"
    /\ select_for_update(r, sreq[r].fam)
    /\ row_lock' = [row_lock EXCEPT ![sreq[r].fam] = r]
    /\ sreq' = [sreq EXCEPT ![r] = [@ EXCEPT !.pc = "start"]]
    /\ UNCHANGED <<profileVars, slotVars, item, now, last, ctx, wreq, nameVars>>

\* Two requests, each a register (entering at assign_parent_slot) or a
\* profile_setup or profile_edit (entering at the view's lock), against the
\* same or different families with any slots already filled.
InitSlotFair ==
    /\ accounts = Users
    /\ role = [u \in Users |-> ROLE_PARENT]
    /\ family \in [Users -> Families]
    /\ is_approved = [u \in Users |-> FALSE]
    /\ parent1 \in [Families -> {NULL, "u3"}]
    /\ parent2 \in [Families -> {NULL, "u3"}]
    /\ item = DeletedItem
    /\ now = 1
    /\ last = NoOutcome
    /\ ctx = NoContext
    /\ families = Families
    /\ InitNames
    /\ InitRows
    /\ NoCalculation
    /\ wreq = [r \in Requests |-> IdleWish]
    /\ sreq \in [Requests -> {[pc |-> p, user |-> u, fam |-> f, row |-> NoRow,
                               result |-> "none"] :
                                 p \in {"view", "start"}, u \in Users, f \in Families}]
    /\ \A r \in Requests : family[sreq[r].user] = sreq[r].fam
    /\ \A f \in Families : family_parent1_not_equal_parent2_or_null(Row(f))
    /\ row_lock = [f \in Families |-> NULL]

NextSlotFair ==
    \/ \E r \in Requests : ViewLock(r)
    \/ \E r \in Requests : LockAndRead(r)
    \/ \E r \in Requests : SaveSlots(r)
    \/ \E r \in Requests : Commit(r)

\* Every request is served by its own worker, which takes each step it can
\* take; a worker waiting for a row lock gets it once the holder committed.
SpecSlotFair ==
    /\ InitSlotFair
    /\ [][NextSlotFair]_vars
    /\ \A r \in Requests :
          /\ WF_vars(ViewLock(r))
          /\ WF_vars(LockAndRead(r))
          /\ WF_vars(SaveSlots(r))
          /\ WF_vars(Commit(r))

\* C26: every slot assignment eventually ends (committed, or rolled back on
\* IntegrityError) and every Family row lock is released, whichever requests
\* overlap on whichever families.
C26_EveryRequestCommits ==
    <>[](/\ \A r \in Requests : sreq[r].pc = "done"
         /\ \A f \in Families : row_lock[f] = NULL)

\* A request that locked the row in its view is about to lock it again in
\* assign_parent_slot while the other request waits for the same row.
C26_Witness ==
    \E r \in Requests, q \in Requests :
        /\ r # q
        /\ sreq[r].pc = "start" /\ row_lock[sreq[r].fam] = r
        /\ sreq[q].fam = sreq[r].fam /\ sreq[q].pc \in {"view", "start"}

\* C27: add_child creates an account only for a requester that is an approved
\* Parent with a family, and the account it creates is a Child of that
\* family, approved, with one Profile; any other requester creates nothing.
C27_AddChildOnlyByApprovedParent ==
    [][\A c \in Users :
          (c \in accounts' \ accounts /\ last'.op = "add_child") =>
              LET p == last'.actor IN
                /\ is_parent(p) /\ is_approved[p] /\ family[p] # NULL
                /\ role'[c] = ROLE_CHILD /\ family'[c] = family[p] /\ is_approved'[c]
                /\ profiles'[c] = 1]_vars

\* ------------------------------------------------ overlapping claim and purchase
\* C28: when a claim by one Parent and a mark_purchased by another overlap on
\* one item and both report success, the stored item is claimed by the first
\* and purchased by the second.
C28_NoLostUpdate ==
    \A a \in Requests, b \in Requests :
        (/\ wreq[a].op = "claim" /\ wreq[b].op = "mark_purchased"
         /\ wreq[a].pc = "done" /\ wreq[b].pc = "done"
         /\ wreq[a].result = "ok" /\ wreq[b].result = "ok"
         /\ wreq[a].actor # wreq[b].actor)
          => /\ item.is_claimed /\ item.claimed_by = wreq[a].actor
             /\ item.is_purchased /\ item.purchased_by = wreq[b].actor

\* ------------------------------------------------------ slot holders' profiles
\* C29: every account held in a parent slot of a family has a Profile with
\* role Parent and that family, so it holds slots of at most one family.
C29_SlotHolderIsParentOfFamily ==
    \A f \in Families, u \in Users :
        (parent1[f] = u \/ parent2[f] = u) =>
            /\ u \in accounts /\ role[u] = ROLE_PARENT /\ family[u] = f
            /\ \A g \in Families \ {f} : parent1[g] # u /\ parent2[g] # u

\* ---------------------------------------------------- what a Child can reach
\* A family with its two approved parents, an item of one of them, and the
\* Child u3 that add_child created: role Child, approved.
InitChild ==
    /\ accounts = Users
    /\ role = [u \in Users |-> IF u = "u3" THEN ROLE_CHILD ELSE ROLE_PARENT]
    /\ family = [u \in Users |-> "f1"]
    /\ is_approved = [u \in Users |-> TRUE]
    /\ parent1 = [f \in Families |-> IF f = "f1" THEN "u1" ELSE NULL]
    /\ parent2 = [f \in Families |-> IF f = "f1" THEN "u2" ELSE NULL]
    /\ item = NewItem("u1")
    /\ now = 1
    /\ last = NoOutcome
    /\ ctx = NoContext
    /\ families = Families
    /\ InitNames
    /\ InitRows
    /\ NoCalculation
    /\ NoFlight

\* Requests of the Child account only.
NextChild ==
    \/ \E ro \in Roles, f \in Families \cup {NULL} : profile_setup("u3", ro, f)
    \/ \E ro \in Roles, f \in Families \cup {NULL} : profile_edit("u3", "u3", ro, f)
    \/ \E t \in Users : profile_detail("u3", t)
    \/ \E m \in Methods : claim_wishlist_item("u3", m)
    \/ \E m \in Methods : unclaim_wishlist_item("u3", m)
    \/ \E m \in Methods : mark_purchased_wishlist_item("u3", m)
    \/ \E m \in Methods : clear_purchased_wishlist_item("u3", m)

SpecChild == InitChild /\ [][NextChild]_vars

\* C30: by its own requests a Child account never becomes an approved Parent,
\* never claims or purchases an item and is never shown purchase info or
\* private notes.
C30_ChildCannotEscalate ==
    /\ ~(role["u3"] = ROLE_PARENT /\ is_approved["u3"])
    /\ item.claimed_by # "u3" /\ item.purchased_by # "u3"
    /\ ~ctx.can_view_purchase_info /\ ~ctx.can_view_private_notes

====
